---------------------------- MODULE Spec2Model ----------------------------
(***************************************************************************)
(* Model of the text-rewriting pipeline of src/script.py.                  *)
(*                                                                         *)
(* A text is a sequence of characters, each a short string.  A placeholder *)
(* token                                                                   *)
(* such as __PROTECTED_PLACEHOLDER_3__ is one element of the sequence: it  *)
(* is built only from letters, digits and underscores, so every regular    *)
(* expression of the program treats it as a run of ordinary characters,    *)
(* and str.replace finds it exactly where the element stands (the input    *)
(* alphabets below cannot spell a token).                                  *)
(***************************************************************************)
EXTENDS Integers, Sequences, FiniteSets, Bags, TLC

VARIABLES
    pc,                \* position of the running function
    inp,               \* the document handed to the function
    content,           \* the document being rewritten
    protected_blocks,  \* the spans stored by the current protect call
    build_dir,         \* the files of the build directory: file name -> data
    mmdc_cmd,          \* whether find_mmdc_command found the renderer in this run
    pos,               \* index of the block the last callback replaced
    calls,             \* the external processes started in the current run
    outputs,           \* what the last two runs over the build directory returned
    footnote_defs,     \* label -> body of the footnote definitions collected
    mid,               \* the document between two steps of the running function
    meta,              \* the metadata record: its variable map
    unresolved,        \* the names listed in the unresolved-variables warning
    history            \* the passes main has applied to md_content, in order

textVars == <<inp, content, protected_blocks>>
runVars == <<build_dir, mmdc_cmd, pos, calls, outputs>>
passVars == <<footnote_defs, mid, meta, unresolved, history>>
vars == <<pc, inp, content, protected_blocks, build_dir, mmdc_cmd, pos, calls,
          outputs, footnote_defs, mid, meta, unresolved, history>>

InitRunVars ==
    /\ build_dir = <<>>
    /\ mmdc_cmd = FALSE
    /\ pos = 0
    /\ calls = {}
    /\ outputs = <<>>

InitPassVars ==
    /\ footnote_defs = <<>>
    /\ mid = <<>>
    /\ meta = <<>>
    /\ unresolved = EmptyBag
    /\ history = <<>>

(***************************************************************************)
(* Bounds                                                                  *)
(***************************************************************************)
MaxPieces == 4
MaxEscapePieces == 5

(***************************************************************************)
(* Characters and generic text helpers                                     *)
(***************************************************************************)
BT == "BT"   \* the backtick character

RECURSIVE Concat(_)
Concat(ss) == IF ss = <<>> THEN <<>> ELSE Head(ss) \o Concat(Tail(ss))

Texts(pieces, n) == UNION {{Concat(f) : f \in [1..k -> pieces]} : k \in 0..n}

RECURSIVE RunLen(_, _, _)
RunLen(t, i, c) ==
    IF i >= 1 /\ i <= Len(t) /\ t[i] = c THEN 1 + RunLen(t, i + 1, c) ELSE 0

\* first k >= j at which a run of at least n characters c starts; 0 if none
RECURSIVE FirstRun(_, _, _, _)
FirstRun(t, j, c, n) ==
    IF j > Len(t) THEN 0
    ELSE IF RunLen(t, j, c) >= n THEN j
    ELSE FirstRun(t, j + 1, c, n)

\* first k >= j with t[k] in S; 0 if none
RECURSIVE FirstIn(_, _, _)
FirstIn(t, j, S) ==
    IF j > Len(t) THEN 0
    ELSE IF t[j] \in S THEN j
    ELSE FirstIn(t, j + 1, S)

(***************************************************************************)
(* The regular expressions of the protection passes.  XEnd(t, i) is the    *)
(* index of the last character of the match of X that starts at i, as      *)
(* the backtracking matcher finds it, or 0 when X does not match at i.     *)
(***************************************************************************)
\* ````+.*?````+  (DOTALL)
Fence4End(t, i) ==
    LET r == RunLen(t, i, BT) IN
    IF r < 4 THEN 0
    ELSE LET j == FirstRun(t, i + r, BT, 4) IN
         IF j # 0 THEN j + RunLen(t, j, BT) - 1
         ELSE IF r >= 8 THEN i + r - 1
         ELSE 0

\* ```.*?```  (DOTALL)
Fence3End(t, i) ==
    IF RunLen(t, i, BT) < 3 THEN 0
    ELSE LET j == FirstRun(t, i + 3, BT, 3) IN
         IF j # 0 THEN j + 2 ELSE 0

\* d[^d\n]*d  when min = 0,  d[^d\n]+d  when min = 1
InlineEnd(t, i, d, min) ==
    IF RunLen(t, i, d) < 1 THEN 0
    ELSE LET k == FirstIn(t, i + 1, {d, "\n"}) IN
         IF k # 0 /\ t[k] = d /\ k - (i + 1) >= min THEN k ELSE 0

\* \$\$.*?\$\$  (DOTALL)
DisplayMathEnd(t, i) ==
    IF RunLen(t, i, "$") < 2 THEN 0
    ELSE LET j == FirstRun(t, i + 2, "$", 2) IN
         IF j # 0 THEN j + 1 ELSE 0

\* `+\{=latex\}.*?`+  (DOTALL); "{=latex}" is one character of the text
LatexEnd(t, i) ==
    LET r == RunLen(t, i, BT) IN
    IF r < 1 \/ RunLen(t, i + r, "{=latex}") < 1 THEN 0
    ELSE LET j == FirstRun(t, i + r + 1, BT, 1) IN
         IF j # 0 THEN j + RunLen(t, j, BT) - 1 ELSE 0

MatchEnd(pat, t, i) ==
    CASE pat = "latex"   -> LatexEnd(t, i)
      [] pat = "fence4"  -> Fence4End(t, i)
      [] pat = "fence3"  -> Fence3End(t, i)
      [] pat = "code"    -> InlineEnd(t, i, BT, 0)
      [] pat = "code1"   -> InlineEnd(t, i, BT, 1)
      [] pat = "dmath"   -> DisplayMathEnd(t, i)
      [] pat = "math"    -> InlineEnd(t, i, "$", 0)
      [] pat = "math1"   -> InlineEnd(t, i, "$", 1)

(***************************************************************************)
(* Protection Ledger                                                       *)
(***************************************************************************)
TokenNames ==
    [PLACEHOLDER |-> <<"PH0", "PH1", "PH2", "PH3", "PH4", "PH5", "PH6", "PH7", "PH8", "PH9">>,
     ESCAPE      |-> <<"EP0", "EP1", "EP2", "EP3", "EP4", "EP5", "EP6", "EP7", "EP8", "EP9">>]

\* f"__PROTECTED_PLACEHOLDER_{k}__", f"__ESCAPE_PROTECTED_{k}__"
Token(kind, k) == TokenNames[kind][k + 1]

\* re.sub(pat, store_protected_block, t): st = [content, blocks]
RECURSIVE SubStore(_, _, _, _, _, _)
RECURSIVE StoreMatch(_, _, _, _, _, _, _)
SubStore(kind, pat, t, i, acc, blocks) ==
    IF i > Len(t) THEN [content |-> acc, blocks |-> blocks]
    ELSE StoreMatch(kind, pat, t, i, acc, blocks, MatchEnd(pat, t, i))

\* one step of the scan: e is where the match that starts at i ends, 0 if none
StoreMatch(kind, pat, t, i, acc, blocks, e) ==
    IF e # 0
    THEN SubStore(kind, pat, t, e + 1, Append(acc, Token(kind, Len(blocks))),
                  Append(blocks, SubSeq(t, i, e)))
    ELSE SubStore(kind, pat, t, i + 1, Append(acc, t[i]), blocks)

store_protected_block(pat, st) ==
    SubStore("PLACEHOLDER", pat, st.content, 1, <<>>, st.blocks)

protect_code_and_math_blocks(t) ==
    LET s0 == [content |-> t, blocks |-> <<>>]
        s1 == store_protected_block("fence4", s0)
        s2 == store_protected_block("fence3", s1)
        s3 == store_protected_block("code", s2)
        s4 == store_protected_block("dmath", s3)
        s5 == store_protected_block("math", s4)
    IN s5

\* str.replace(tok, block) for a one-element token
RECURSIVE Replace(_, _, _)
Replace(t, tok, block) ==
    IF t = <<>> THEN <<>>
    ELSE (IF Head(t) = tok THEN block ELSE <<Head(t)>>) \o Replace(Tail(t), tok, block)

\* for i, protected_block in enumerate(protected_blocks): content = content.replace(...)
RECURSIVE RestoreFrom(_, _, _, _)
RestoreFrom(kind, t, blocks, i) ==
    IF i > Len(blocks) THEN t
    ELSE RestoreFrom(kind, Replace(t, Token(kind, i - 1), blocks[i]), blocks, i + 1)

restore_protected_blocks(t, blocks) == RestoreFrom("PLACEHOLDER", t, blocks, 1)

(***************************************************************************)
(* Escape Pass                                                             *)
(***************************************************************************)
escape_store_protected_block(pat, st) ==
    SubStore("ESCAPE", pat, st.content, 1, <<>>, st.blocks)

\* content.replace(sign, "\\" + sign)
RECURSIVE EscapeSign(_, _)
EscapeSign(t, sign) ==
    IF t = <<>> THEN <<>>
    ELSE (IF Head(t) = sign THEN <<"\\", sign>> ELSE <<Head(t)>>) \o EscapeSign(Tail(t), sign)

RECURSIVE EscapeAll(_, _)
EscapeAll(t, signs) ==
    IF signs = <<>> THEN t ELSE EscapeAll(EscapeSign(t, Head(signs)), Tail(signs))

escape_signs(t, to_escape) ==
    LET s0 == [content |-> t, blocks |-> <<>>]
        s1 == escape_store_protected_block("latex", s0)
        s2 == escape_store_protected_block("fence4", s1)
        s3 == escape_store_protected_block("fence3", s2)
        s4 == escape_store_protected_block("code1", s3)
        s5 == escape_store_protected_block("dmath", s4)
        s6 == escape_store_protected_block("math1", s5)
    IN RestoreFrom("ESCAPE", EscapeAll(s6.content, to_escape), s6.blocks, 1)

(***************************************************************************)
(* Specification of the ledger alone: protect, then restore                *)
(***************************************************************************)
LedgerPieces ==
    {<<BT, BT, BT, BT>>, <<BT, BT, BT>>, <<BT>>, <<"$", "$">>, <<"$">>, <<"a">>, <<"\n">>}

InitLedger ==
    /\ pc = "start"
    /\ inp \in Texts(LedgerPieces, MaxPieces)
    /\ content = inp
    /\ protected_blocks = <<>>
    /\ InitRunVars
    /\ InitPassVars

Protect ==
    /\ pc = "start"
    /\ \E r \in {protect_code_and_math_blocks(content)} :
         /\ content' = r.content
         /\ protected_blocks' = r.blocks
    /\ pc' = "protected"
    /\ UNCHANGED <<inp, runVars, passVars>>

Restore ==
    /\ pc = "protected"
    /\ content' = restore_protected_blocks(content, protected_blocks)
    /\ pc' = "restored"
    /\ UNCHANGED <<inp, protected_blocks, runVars, passVars>>

NextLedger == Protect \/ Restore

SpecLedger == InitLedger /\ [][NextLedger]_vars

\* C1: restoring right after protecting returns the original text exactly.
C1_RoundTrip == pc = "restored" => content = inp

\* the orders in which the tokens 0 .. n-1 can be replaced, as lists of the
\* positions of their spans
Orders(n) == {f \in [1..n -> 1..n] : \A i, j \in 1..n : f[i] = f[j] => i = j}

\* the loop of restore_protected_blocks taken through the spans in the order
\* given
RECURSIVE RestoreInOrder(_, _, _)
RestoreInOrder(t, blocks, order) ==
    IF order = <<>> THEN t
    ELSE RestoreInOrder(Replace(t, Token("PLACEHOLDER", Head(order) - 1), blocks[Head(order)]),
                        blocks, Tail(order))

\* C20: for the text and the span list that protect_code_and_math_blocks
\* returns, replacing the tokens in any order of their indices gives the text
\* that replacing them in ascending order gives.
C20_OrderInsensitive ==
    pc = "protected" =>
        \A order \in Orders(Len(protected_blocks)) :
            RestoreInOrder(content, protected_blocks, order)
              = restore_protected_blocks(content, protected_blocks)

(***************************************************************************)
(* Specification of the escape pass as main calls it                       *)
(***************************************************************************)
EscapePieces ==
    {<<BT, BT, BT, BT>>, <<BT, BT, BT>>, <<BT>>, <<"$", "$">>, <<"$">>, <<"%">>, <<"\n">>, <<"{=latex}">>}

InitEscape ==
    /\ pc = "start"
    /\ inp \in Texts(EscapePieces, MaxEscapePieces)
    /\ content = inp
    /\ protected_blocks = <<>>
    /\ InitRunVars
    /\ InitPassVars

EscapeSigns ==
    /\ pc = "start"
    /\ content' = escape_signs(content, <<"%">>)
    /\ pc' = "escaped"
    /\ UNCHANGED <<inp, protected_blocks, runVars, passVars>>

SpecEscape == InitEscape /\ [][EscapeSigns]_vars

\* The code and math spans of a text are the outermost regions the protection
\* patterns of the escape pass match in it: span[i] is TRUE when character i
\* of the text lies in one.
RECURSIVE FullLen(_, _, _)
FullLen(kind, c, blocks) ==
    IF \E k \in 1..Len(blocks) : c = Token(kind, k - 1)
    THEN LET k == CHOOSE k \in 1..Len(blocks) : c = Token(kind, k - 1)
             RECURSIVE Sum(_)
             Sum(b) == IF b = <<>> THEN 0 ELSE FullLen(kind, Head(b), blocks) + Sum(Tail(b))
         IN Sum(blocks[k])
    ELSE 1

RECURSIVE SpanMask(_, _, _)
SpanMask(kind, t, blocks) ==
    IF t = <<>> THEN <<>>
    ELSE LET n == FullLen(kind, Head(t), blocks)
             inside == \E k \in 1..Len(blocks) : Head(t) = Token(kind, k - 1)
         IN [i \in 1..n |-> inside] \o SpanMask(kind, Tail(t), blocks)

EscapeSpans(t) ==
    LET s0 == [content |-> t, blocks |-> <<>>]
        s1 == escape_store_protected_block("latex", s0)
        s2 == escape_store_protected_block("fence4", s1)
        s3 == escape_store_protected_block("fence3", s2)
        s4 == escape_store_protected_block("code1", s3)
        s5 == escape_store_protected_block("dmath", s4)
        s6 == escape_store_protected_block("math1", s5)
    IN SpanMask("ESCAPE", s6.content, s6.blocks)

RECURSIVE EscapedOutside(_, _, _)
EscapedOutside(t, span, i) ==
    IF i > Len(t) THEN <<>>
    ELSE (IF t[i] = "%" /\ ~span[i] THEN <<"\\", "%">> ELSE <<t[i]>>)
         \o EscapedOutside(t, span, i + 1)

\* the percent signs and backslashes of a text, in order
PercentView(t) == SelectSeq(t, LAMBDA c : c \in {"%", "\\"})

\* C2: after escape_signs(content, ["%"]) every % inside a code or math span of
\* the input is unchanged and every % outside the spans has a backslash added
\* before it: the percent signs of the output, with their backslashes, are
\* those of the input with the ones outside the spans escaped.
C2_PercentEscapedOutsideSpans ==
    pc = "escaped" =>
        PercentView(content) = PercentView(EscapedOutside(inp, EscapeSpans(inp), 1))

(***************************************************************************)
(* Diagram Externalizer.  Here a document is a sequence of blocks, each a   *)
(* record [k, v]:                                                           *)
(*   "text"     a paragraph without a mermaid fence                         *)
(*   "mermaid"  a match of ```mermaid\n(.*?)\n```, v its captured source    *)
(*   "quad"     a span matched by ````+.*?````+ that holds a mermaid fence  *)
(*   "token"    __PROTECTED_CODE_BLOCK_v__                                  *)
(*   "literal"  the fallback ```text\n<v>\n```                              *)
(*   "embed"    ![Mermaid Diagram](mermaid_<v>.pdf)                         *)
(* A diagram source is [core, pad]: the text left by strip() and whether    *)
(* the capture carries blank space around it.                               *)
(***************************************************************************)
MaxBlocks == 2

Block(k, v) == [k |-> k, v |-> v]

DiagramSources ==
    {[core |-> "A", pad |-> FALSE], [core |-> "A", pad |-> TRUE], [core |-> "B", pad |-> FALSE]}

\* match.group(1).strip()
Strip(src) == src.core

\* hashlib.md5(code).hexdigest()[:12], taken to be free of collisions
Md5(code) == code

MermaidBlocks ==
    {Block("text", 0)} \cup {Block("mermaid", d) : d \in DiagramSources}
    \cup {Block("quad", [core |-> "A", pad |-> FALSE])}

\* "```mermaid" in content
HasMermaidFence(doc) == \E i \in 1..Len(doc) : doc[i].k \in {"mermaid", "quad"}

\* re.sub(r"````+.*?````+", store_non_mermaid_block, content)
RECURSIVE StoreQuads(_, _, _)
StoreQuads(doc, acc, blocks) ==
    IF doc = <<>> THEN [content |-> acc, blocks |-> blocks]
    ELSE IF Head(doc).k = "quad"
         THEN StoreQuads(Tail(doc), Append(acc, Block("token", Len(blocks))),
                         Append(blocks, Head(doc)))
         ELSE StoreQuads(Tail(doc), Append(acc, Head(doc)), blocks)

store_non_mermaid_block(doc) == StoreQuads(doc, <<>>, <<>>)

\* for i, block in enumerate(protected_blocks): content.replace(token i, block)
RestoreQuads(doc, blocks) ==
    [i \in 1..Len(doc) |->
        IF doc[i].k = "token" /\ doc[i].v + 1 \in 1..Len(blocks)
        THEN blocks[doc[i].v + 1] ELSE doc[i]]

\* mermaid_to_text: f"```text\n{mermaid_code}\n```"
mermaid_to_text(b) == Block("literal", Strip(b.v))

\* f"mermaid_{diagram_hash}.pdf"
image_name(b) == <<"mermaid", Md5(Strip(b.v))>>

Exists(file) == file \in DOMAIN build_dir

\* d.setdefault(key, value): the value first stored under a key stays
DictSet_KeepsFirst(d, key, value) ==
    [x \in DOMAIN d \cup {key} |-> IF x \in DOMAIN d THEN d[x] ELSE value]

\* d[key] = value of a Python dict, path.write_text(data) of a directory
DictSet(d, key, value) ==
    [x \in DOMAIN d \cup {key} |-> IF x = key THEN value ELSE d[x]]

WriteFile(dir, file, data) == DictSet(dir, file, data)

\* what one render attempt can do: an exception inside the try block, the
\* exit code of the renderer, and whether the output file is there afterwards
RenderOutcomes ==
    {o \in [raised : BOOLEAN, rc : {0, 1}, wrote : BOOLEAN] : o.raised => o.rc = 0}

\* what the renderer leaves at the output path when it writes there: the
\* finished image, or whatever a run that failed had written
RenderedFile(o) == IF ~o.raised /\ o.rc = 0 THEN "pdf" ELSE "partial"

\* replace_mermaid_block as it would be if line 568 tested only the file
RenderResult_IgnoresExitCode(b, o) ==
    IF o.raised THEN mermaid_to_text(b)
    ELSE IF ~o.wrote THEN mermaid_to_text(b)
    ELSE Block("embed", Md5(Strip(b.v)))

\* the value replace_mermaid_block returns after a render attempt
RenderResult(b, o) ==
    IF o.raised THEN mermaid_to_text(b)
    ELSE IF o.rc # 0 \/ ~o.wrote THEN mermaid_to_text(b)
    ELSE Block("embed", Md5(Strip(b.v)))

\* the next match of the mermaid pattern after position p; 0 if none
NextMermaid(doc, p) ==
    IF \E i \in (p + 1)..Len(doc) : doc[i].k = "mermaid"
    THEN CHOOSE i \in (p + 1)..Len(doc) :
            /\ doc[i].k = "mermaid"
            /\ \A j \in (p + 1)..(i - 1) : doc[j].k # "mermaid"
    ELSE 0

\* what a run hands back: the document, whether the renderer was found and
\* how many render attempts the run made
Returned(doc, tool, started) == [doc |-> doc, tool |-> tool, started |-> started]

\* the record of the run before the last and of the last run
Remember(outs, r) == IF outs = <<>> THEN <<r>> ELSE <<outs[Len(outs)], r>>

InitMermaid ==
    /\ pc = "idle"
    /\ inp \in UNION {[1..n -> MermaidBlocks] : n \in 0..MaxBlocks}
    /\ content = inp
    /\ protected_blocks = <<>>
    /\ InitRunVars
    /\ InitPassVars

\* lines 496-497: no mermaid fence in the document
MermaidNoFence ==
    /\ pc = "idle"
    /\ ~HasMermaidFence(inp)
    /\ content' = inp
    /\ calls' = {}
    /\ outputs' = Remember(outputs, Returned(inp, mmdc_cmd, 0))
    /\ UNCHANGED <<pc, inp, protected_blocks, build_dir, mmdc_cmd, pos, passVars>>

\* lines 499-521: the renderer is not found; every diagram becomes a literal block
MermaidToolMissing ==
    /\ pc = "idle"
    /\ HasMermaidFence(inp)
    /\ LET st == store_non_mermaid_block(inp)
           txt == [i \in 1..Len(st.content) |->
                      IF st.content[i].k = "mermaid"
                      THEN mermaid_to_text(st.content[i]) ELSE st.content[i]]
           res == RestoreQuads(txt, st.blocks)
       IN /\ content' = res
          /\ protected_blocks' = st.blocks
          /\ outputs' = Remember(outputs, Returned(res, FALSE, 0))
    /\ mmdc_cmd' = FALSE
    /\ calls' = {}
    /\ UNCHANGED <<pc, inp, build_dir, pos, passVars>>

\* lines 499-527: the renderer is found; the substitution of line 582 starts
MermaidBegin ==
    /\ pc = "idle"
    /\ HasMermaidFence(inp)
    /\ LET st == store_non_mermaid_block(inp)
       IN /\ content' = st.content
          /\ protected_blocks' = st.blocks
    /\ mmdc_cmd' = TRUE
    /\ pos' = 0
    /\ calls' = {}
    /\ pc' = "scanning"
    /\ UNCHANGED <<inp, build_dir, outputs, passVars>>

\* replace_mermaid_block, lines 533-537 and 577-579: the artifact exists
ReplaceCached ==
    /\ pc = "scanning"
    /\ LET i == NextMermaid(content, pos) IN
        /\ i # 0
        /\ Exists(image_name(content[i]))
        /\ content' = [content EXCEPT ![i] = Block("embed", Md5(Strip(content[i].v)))]
        /\ pos' = i
    /\ UNCHANGED <<pc, inp, protected_blocks, build_dir, mmdc_cmd, calls, outputs, passVars>>

\* replace_mermaid_block, lines 533-576 and 579: the artifact is missing
RenderBlock ==
    /\ pc = "scanning"
    /\ LET i == NextMermaid(content, pos) IN
        /\ i # 0
        /\ ~Exists(image_name(content[i]))
        /\ \E o \in RenderOutcomes :
            /\ build_dir' = IF o.wrote
                            THEN WriteFile(build_dir, image_name(content[i]), RenderedFile(o))
                            ELSE build_dir
            /\ calls' = calls \cup
                 {[prog |-> "mmdc", pos |-> i, hash |-> Md5(Strip(content[i].v)),
                   outcome |-> o]}
            /\ content' = [content EXCEPT ![i] = RenderResult(content[i], o)]
        /\ pos' = i
    /\ UNCHANGED <<pc, inp, protected_blocks, mmdc_cmd, outputs, passVars>>

\* lines 582-587: no match is left; the protected blocks are put back
MermaidReturn ==
    /\ pc = "scanning"
    /\ NextMermaid(content, pos) = 0
    /\ LET res == RestoreQuads(content, protected_blocks)
       IN /\ content' = res
          /\ outputs' = Remember(outputs, Returned(res, TRUE, Cardinality(calls)))
    /\ pc' = "idle"
    /\ UNCHANGED <<inp, protected_blocks, build_dir, mmdc_cmd, pos, calls, passVars>>

NextMermaidSpec ==
    \/ MermaidNoFence
    \/ MermaidToolMissing
    \/ MermaidBegin
    \/ ReplaceCached
    \/ RenderBlock
    \/ MermaidReturn

SpecMermaid == InitMermaid /\ [][NextMermaidSpec]_vars

\* the diagram blocks of the input that process_mermaid_diagrams rewrites
DiagramPositions == {i \in 1..Len(inp) : inp[i].k = "mermaid"}

\* C3: when the first of two runs over one build directory embedded every
\* diagram of the document (the cache is populated), the second run over the
\* same document starts no renderer and returns the same embed references.
C3_SecondRunFromCache ==
    (/\ Len(outputs) = 2
     /\ DiagramPositions # {}
     /\ \A i \in DiagramPositions : outputs[1].doc[i].k = "embed")
    => /\ outputs[2].started = 0
       /\ \A i \in DiagramPositions : outputs[2].doc[i] = outputs[1].doc[i]

\* the ways a render attempt fails: it raises, exits non-zero or leaves no file
RenderFailed(o) == o.raised \/ o.rc # 0 \/ ~o.wrote

\* the run that returned last, when no other run has started since
LastRun == outputs[Len(outputs)]

\* C9: when a run of process_mermaid_diagrams has returned, a diagram block is
\* replaced by a literal text block holding its source if the renderer was not
\* found or the render attempt for the block failed (raised, exited non-zero,
\* left no file); every diagram block of the document is replaced whatever
\* happened to the blocks before it; and a run that has started can always
\* take its next step, so it returns.
C9_RenderFailureFallsBack ==
    /\ (pc = "idle" /\ outputs # <<>>) =>
          \A i \in DiagramPositions :
             /\ LastRun.doc[i].k \in {"literal", "embed"}
             /\ (\/ ~LastRun.tool
                 \/ \E c \in calls : c.pos = i /\ RenderFailed(c.outcome))
                => LastRun.doc[i] = Block("literal", Strip(inp[i].v))
    /\ pc = "scanning" => ENABLED (ReplaceCached \/ RenderBlock \/ MermaidReturn)

\* a run that has returned, in which the render of one block raised and a
\* later block was rendered and embedded
C9_Witness ==
    /\ pc = "idle" /\ outputs # <<>>
    /\ \E c \in calls : \E d \in calls :
        /\ c.outcome.raised
        /\ d.pos > c.pos
        /\ ~RenderFailed(d.outcome)
        /\ LastRun.doc[c.pos].k = "literal"
        /\ LastRun.doc[d.pos].k = "embed"

\* C16: whenever process_mermaid_diagrams deals with a diagram block while the
\* artifact for the block's hash is in the build directory (in the run that
\* found no renderer all blocks at once, otherwise the block the substitution
\* moves to), the block becomes the embed reference to that artifact and no
\* renderer is started for it.
C16_CacheHitReused ==
    [][\A i \in DiagramPositions :
          (/\ Exists(image_name(inp[i]))
           /\ \/ pc = "idle" /\ pc' = "idle"
              \/ pc = "scanning" /\ pos' = i /\ pos # i)
          => /\ content'[i] = Block("embed", Md5(Strip(inp[i].v)))
             /\ ~\E c \in calls' \ calls : c.pos = i]_vars

\* C21: over any sequence of runs on one build directory, a diagram block is
\* an embed reference only if a renderer run for its hash exited with code 0
\* and produced the artifact (the file under the artifact's name is then the
\* finished image, never what a failed attempt left there).
C21_EmbedOnlyRendered ==
    \A i \in DiagramPositions :
        content[i].k = "embed" =>
            /\ Exists(image_name(inp[i]))
            /\ build_dir[image_name(inp[i])] = "pdf"

(***************************************************************************)
(* Footnote Converter                                                      *)
(***************************************************************************)
MaxFootnotePieces == 4

WS == {" ", "\n"}

At(t, i) == IF i >= 1 /\ i <= Len(t) THEN t[i] ELSE "EOT"

\* length of the run of white space that starts at i
RECURSIVE WsRun(_, _)
WsRun(t, i) == IF At(t, i) \in WS THEN 1 + WsRun(t, i + 1) ELSE 0

\* s.strip()
RECURSIVE StripText(_)
StripText(t) ==
    IF t = <<>> THEN t
    ELSE IF Head(t) \in WS THEN StripText(Tail(t))
    ELSE IF t[Len(t)] \in WS THEN StripText(SubSeq(t, 1, Len(t) - 1))
    ELSE t

\* the lookahead (?=\n\s*\n|\n\s*\[|\Z) at position p
DefLookAhead(t, p) ==
    \/ p > Len(t)
    \/ /\ t[p] = "\n"
       /\ LET w == WsRun(t, p + 1) IN
            \/ \E j \in (p + 1)..(p + w) : t[j] = "\n"
            \/ At(t, p + 1 + w) = "["

RECURSIVE FirstLookAhead(_, _)
FirstLookAhead(t, e) == IF DefLookAhead(t, e + 1) THEN e ELSE FirstLookAhead(t, e + 1)

\* ^\[(\^[^\]]+)\]:\s*(.+?)(?=\n\s*\n|\n\s*\[|\Z)  (MULTILINE, DOTALL) at i:
\* [end, label, body], end = 0 when there is no match
DefMatch(t, i) ==
    LET k == FirstIn(t, i + 2, {"]"})
        q == k + 2
        ws == WsRun(t, q)
        none == [end |-> 0, label |-> <<>>, body |-> <<>>]
    IN IF ~(i = 1 \/ At(t, i - 1) = "\n") THEN none
       ELSE IF At(t, i) # "[" \/ At(t, i + 1) # "^" THEN none
       ELSE IF k = 0 \/ k = i + 2 \/ At(t, k + 1) # ":" THEN none
       ELSE IF q + ws <= Len(t)
            THEN LET e == FirstLookAhead(t, q + ws) IN
                 [end |-> e, label |-> SubSeq(t, i + 1, k - 1), body |-> SubSeq(t, q + ws, e)]
       ELSE IF ws >= 1
            THEN [end |-> Len(t), label |-> SubSeq(t, i + 1, k - 1),
                  body |-> SubSeq(t, Len(t), Len(t))]
       ELSE none

\* re.sub(<definition pattern>, extract_definition, content)
RECURSIVE ExtractDefs(_, _, _, _)
ExtractDefs(t, i, acc, defs) ==
    IF i > Len(t) THEN [content |-> acc, defs |-> defs]
    ELSE LET m == DefMatch(t, i) IN
         IF m.end # 0
         THEN ExtractDefs(t, m.end + 1, acc, DictSet(defs, m.label, StripText(m.body)))
         ELSE ExtractDefs(t, i + 1, Append(acc, t[i]), defs)

extract_definition(t) == ExtractDefs(t, 1, <<>>, <<>>)

\* c1 c2 [^\]]+ \]  at i: index of the closing bracket, 0 when there is no match
BracketEnd(t, i, c1, c2) ==
    IF At(t, i) # c1 \/ At(t, i + 1) # c2 THEN 0
    ELSE LET k == FirstIn(t, i + 2, {"]"}) IN
         IF k # 0 /\ k > i + 2 THEN k ELSE 0

\* re.sub(r"\^\[([^\]]+)\]", replace_inline, content)
RECURSIVE replace_inline(_, _, _)
replace_inline(t, i, open) ==
    IF i > Len(t) THEN <<>>
    ELSE LET k == BracketEnd(t, i, "^", "[") IN
         IF k # 0
         THEN <<open>> \o SubSeq(t, i + 2, k - 1) \o <<"}">> \o replace_inline(t, k + 1, open)
         ELSE <<t[i]>> \o replace_inline(t, i + 1, open)

\* replace_reference as it would be with footnote_defs.get(label, ""): an
\* undefined label gives a footnote with an empty body
ReferenceText_EmptyForUndefined(t, i, k, defs, open) ==
    LET label == SubSeq(t, i + 1, k - 1) IN
    <<open>> \o (IF label \in DOMAIN defs THEN defs[label] ELSE <<>>) \o <<"}">>

\* the value replace_reference returns for the match t[i..k]
ReferenceText(t, i, k, defs, open) ==
    LET label == SubSeq(t, i + 1, k - 1) IN
    IF label \in DOMAIN defs
    THEN <<open>> \o defs[label] \o <<"}">>
    ELSE SubSeq(t, i, k)

\* re.sub(r"\[(\^[^\]]+)\]", replace_reference, content)
RECURSIVE replace_reference(_, _, _, _)
replace_reference(t, i, defs, open) ==
    IF i > Len(t) THEN <<>>
    ELSE LET k == BracketEnd(t, i, "[", "^") IN
         IF k # 0
         THEN ReferenceText(t, i, k, defs, open) \o replace_reference(t, k + 1, defs, open)
         ELSE <<t[i]>> \o replace_reference(t, i + 1, defs, open)

\* the function's result, with the definitions it collected, the spans it
\* protected and the document as it stood once the definitions were removed
convert_markdown_footnotes_to_latex(t, use_comments) ==
    LET open == IF use_comments THEN "\\todoComment{" ELSE "\\footnote{"
        p == CHOOSE x \in {protect_code_and_math_blocks(t)} : TRUE
        d == CHOOSE x \in {extract_definition(p.content)} : TRUE
        c1 == replace_inline(d.content, 1, open)
        c2 == replace_reference(c1, 1, d.defs, open)
    IN [content |-> restore_protected_blocks(c2, p.blocks),
        defs |-> d.defs,
        blocks |-> p.blocks,
        mid |-> restore_protected_blocks(d.content, p.blocks)]

RefA == <<"[", "^", "a", "]">>
RefB == <<"[", "^", "b", "]">>
InlineW == <<"^", "[", "w", "]">>
DefA == <<"[", "^", "a", "]", ":", " ", "h", "\n">>
CodeRefA == <<BT>> \o RefA \o <<BT>>

FootnotePieces == {RefA, RefB, InlineW, DefA, CodeRefA, <<"x">>, <<"\n">>}

InitFootnotes ==
    /\ pc = "start"
    /\ inp \in Texts(FootnotePieces, MaxFootnotePieces)
    /\ content = inp
    /\ protected_blocks = <<>>
    /\ InitRunVars
    /\ footnote_defs = <<>>
    /\ mid = <<>>
    /\ meta \in [footnotesAsComments : BOOLEAN]
    /\ unresolved = EmptyBag
    /\ history = <<>>

\* main, lines 1144-1148
ConvertFootnotes ==
    /\ pc = "start"
    /\ \E r \in {convert_markdown_footnotes_to_latex(content, meta.footnotesAsComments)} :
         /\ content' = r.content
         /\ footnote_defs' = r.defs
         /\ mid' = r.mid
         /\ protected_blocks' = r.blocks
    /\ pc' = "converted"
    /\ UNCHANGED <<inp, runVars, meta, unresolved, history>>

SpecFootnotes == InitFootnotes /\ [][ConvertFootnotes]_vars

StartsWith(t, i, p) == i + Len(p) - 1 <= Len(t) /\ SubSeq(t, i, i + Len(p) - 1) = p

\* The footnote syntax read off the text in one pass from left to right: a
\* code span stays, ^[body] becomes footnote markup around body, [^label]
\* becomes footnote markup around the body defined for label, or stays.
RECURSIVE FootnotesRead(_, _, _, _)
FootnotesRead(t, i, defs, open) ==
    IF i > Len(t) THEN <<>>
    ELSE IF StartsWith(t, i, CodeRefA)
         THEN CodeRefA \o FootnotesRead(t, i + Len(CodeRefA), defs, open)
    ELSE IF StartsWith(t, i, InlineW)
         THEN <<open, "w", "}">> \o FootnotesRead(t, i + Len(InlineW), defs, open)
    ELSE IF \E r \in {RefA, RefB} : StartsWith(t, i, r)
         THEN LET r == CHOOSE r \in {RefA, RefB} : StartsWith(t, i, r)
                  label == SubSeq(r, 2, 3)
              IN (IF label \in DOMAIN defs THEN <<open>> \o defs[label] \o <<"}">> ELSE r)
                 \o FootnotesRead(t, i + Len(r), defs, open)
    ELSE <<t[i]>> \o FootnotesRead(t, i + 1, defs, open)

\* the collected definitions with the code spans of their bodies put back
DefinedBodies ==
    [l \in DOMAIN footnote_defs |->
        restore_protected_blocks(footnote_defs[l], protected_blocks)]

\* C4: with the definitions removed from the document, every reference
\* [^label] whose label has a definition is replaced by footnote markup holding
\* that definition's body, every inline ^[body] by footnote markup holding body,
\* and a reference whose label has no definition stays as the same text.
C4_FootnotesConverted ==
    pc = "converted" =>
        content = FootnotesRead(mid, 1, DefinedBodies,
                     IF meta.footnotesAsComments THEN "\\todoComment{" ELSE "\\footnote{")

\* a converted document with a definition of a, a reference to a, a reference
\* to the undefined b and an inline footnote
C4_Witness ==
    /\ pc = "converted"
    /\ ~meta.footnotesAsComments
    /\ DOMAIN footnote_defs = {<<"^", "a">>}
    /\ \E i \in 1..Len(mid) : StartsWith(mid, i, RefA)
    /\ \E i \in 1..Len(mid) : StartsWith(mid, i, RefB)
    /\ \E i \in 1..Len(mid) : StartsWith(mid, i, InlineW)
    /\ \E i \in 1..Len(content) : StartsWith(content, i, RefB)
    /\ \E i \in 1..Len(content) : StartsWith(content, i, <<"\\footnote{", "h", "}">>)
    /\ \E i \in 1..Len(content) : StartsWith(content, i, <<"\\footnote{", "w", "}">>)

(***************************************************************************)
(* Specification of the footnote converter on documents of whole lines: a  *)
(* reference to a on a line of its own, one of two definitions of a with    *)
(* different bodies, a line of text.                                        *)
(***************************************************************************)
MaxFootnoteLines == 5

FootnoteLines ==
    [ref    |-> RefA \o <<"\n">>,
     first  |-> RefA \o <<":", " ", "h", "\n">>,
     second |-> RefA \o <<":", " ", "k", "\n">>,
     text   |-> <<"x", "\n">>]

InitDefinitions ==
    /\ pc = "start"
    /\ inp \in UNION {[1..n -> DOMAIN FootnoteLines] : n \in 0..MaxFootnoteLines}
    /\ content = Concat([i \in 1..Len(inp) |-> FootnoteLines[inp[i]]])
    /\ protected_blocks = <<>>
    /\ InitRunVars
    /\ footnote_defs = <<>>
    /\ mid = <<>>
    /\ meta \in [footnotesAsComments : BOOLEAN]
    /\ unresolved = EmptyBag
    /\ history = <<>>

SpecDefinitions == InitDefinitions /\ [][ConvertFootnotes]_vars

\* the lines of the input that are definitions, and those that are references
DefinitionLines == {i \in 1..Len(inp) : inp[i] \in {"first", "second"}}

ReferenceLines == {i \in 1..Len(inp) : inp[i] = "ref"}

LastDefinition == CHOOSE i \in DefinitionLines : \A j \in DefinitionLines : j <= i

\* where the text p occurs in t
Occurrences(t, p) == {i \in 1..Len(t) : StartsWith(t, i, p)}

\* C17: when the document defines the label a more than once, the body kept
\* for a is that of the last definition, every reference to a (before, between
\* or after the definitions) is replaced by footnote markup holding that body,
\* and no definition is left in the output.
C17_LastDefinitionWins ==
    (pc = "converted" /\ Cardinality(DefinitionLines) >= 2) =>
        LET body == footnote_defs[<<"^", "a">>]
            open == IF meta.footnotesAsComments THEN "\\todoComment{" ELSE "\\footnote{"
        IN /\ Head(body) = FootnoteLines[inp[LastDefinition]][7]
           /\ Cardinality(Occurrences(content, <<open>> \o body \o <<"}">>))
                = Cardinality(ReferenceLines)
           /\ Occurrences(content, RefA) = {}
           /\ Occurrences(content, <<":">>) = {}

\* a reference before, one between and one after two definitions of a with
\* different bodies, all three replaced with the body of the second
C17_Witness ==
    /\ pc = "converted"
    /\ ~meta.footnotesAsComments
    /\ inp = <<"ref", "first", "ref", "second", "ref">>
    /\ content = <<"\\footnote{", "k", "}", "\n", "\n", "\\footnote{", "k", "}", "\n", "\n",
                   "\\footnote{", "k", "}", "\n">>

(***************************************************************************)
(* Container Block Parser.  The three colons of a fence are one character  *)
(* of the text, and so is a type word.                                     *)
(***************************************************************************)
MaxLines == 4

Digits == <<"0", "1", "2", "3", "4", "5", "6", "7", "8", "9">>

\* container_types, with the spellings re.IGNORECASE lets through and .lower()
\* folds
container_types ==
    [note |-> "mdalertnote", tip |-> "mdalerttip", important |-> "mdalertimportant",
     warning |-> "mdalertwarning", caution |-> "mdalertcaution", center |-> "mdcenter",
     right |-> "mdright", box |-> "mdbox"]

Lower(w) == IF w = "NOTE" THEN "note" ELSE IF w = "Tip" THEN "tip" ELSE w

TypeWords == {"note", "tip", "important", "warning", "caution", "center", "right", "box",
              "NOTE", "Tip"}

\* content.split("\n")
RECURSIVE SplitFrom(_, _, _)
SplitFrom(t, i, cur) ==
    IF i > Len(t) THEN <<cur>>
    ELSE IF t[i] = "\n" THEN <<cur>> \o SplitFrom(t, i + 1, <<>>)
    ELSE SplitFrom(t, i + 1, Append(cur, t[i]))

Split(t) == SplitFrom(t, 1, <<>>)

\* "\n".join(lines)
RECURSIVE Join(_)
Join(lines) ==
    IF lines = <<>> THEN <<>>
    ELSE IF Len(lines) = 1 THEN lines[1]
    ELSE lines[1] \o <<"\n">> \o Join(Tail(lines))

\* an opening fence recognised at the left margin only
OpenFence_MarginOnly(line) ==
    IF At(line, 1) = ":::" /\ At(line, 2) \in TypeWords /\ Len(line) = 2
    THEN [ok |-> TRUE, indent |-> <<>>, type |-> Lower(line[2])]
    ELSE [ok |-> FALSE, indent |-> <<>>, type |-> ""]

\* ^(\s*):::\s*(note|tip|...)\s*$  (IGNORECASE): [ok, indent, type]
OpenFence(line) ==
    LET w == WsRun(line, 1)
        w2 == WsRun(line, w + 2)
        w3 == WsRun(line, w + 3 + w2)
    IN IF /\ At(line, w + 1) = ":::"
          /\ At(line, w + 2 + w2) \in TypeWords
          /\ w + 2 + w2 + w3 = Len(line)
       THEN [ok |-> TRUE, indent |-> SubSeq(line, 1, w), type |-> Lower(line[w + 2 + w2])]
       ELSE [ok |-> FALSE, indent |-> <<>>, type |-> ""]

\* ^(\s*):::\s*$
CloseFence(line) ==
    LET w == WsRun(line, 1) IN
    At(line, w + 1) = ":::" /\ w + 1 + WsRun(line, w + 2) = Len(line)

\* line.strip() == ""
IsBlank(line) == WsRun(line, 1) = Len(line)

\* lines 655-660, 665-670, 673-678
CleanLine(line, indent) ==
    IF Len(line) > Len(indent) /\ SubSeq(line, 1, Len(indent)) = indent
    THEN SubSeq(line, Len(indent) + 1, Len(line))
    ELSE IF IsBlank(line) THEN <<>>
    ELSE line

\* the inner loop as it would be without line 654: an opening fence inside
\* the body does not raise the nesting level
RECURSIVE CaptureBody_FlatNesting(_, _, _, _, _)
CaptureBody_FlatNesting(lines, i, nesting_level, alert_lines, indent) ==
    IF ~(i <= Len(lines) /\ nesting_level > 0)
    THEN [next |-> i, alert_lines |-> alert_lines]
    ELSE IF CloseFence(lines[i])
         THEN CaptureBody_FlatNesting(lines, i + 1, nesting_level - 1,
                          IF nesting_level - 1 > 0
                          THEN Append(alert_lines, CleanLine(lines[i], indent))
                          ELSE alert_lines, indent)
    ELSE CaptureBody_FlatNesting(lines, i + 1, nesting_level,
                     Append(alert_lines, CleanLine(lines[i], indent)), indent)

\* the inner loop, lines 650-681: [next, alert_lines]
RECURSIVE CaptureBody(_, _, _, _, _)
CaptureBody(lines, i, nesting_level, alert_lines, indent) ==
    IF ~(i <= Len(lines) /\ nesting_level > 0)
    THEN [next |-> i, alert_lines |-> alert_lines]
    ELSE IF OpenFence(lines[i]).ok
         THEN CaptureBody(lines, i + 1, nesting_level + 1,
                          Append(alert_lines, CleanLine(lines[i], indent)), indent)
    ELSE IF CloseFence(lines[i])
         THEN CaptureBody(lines, i + 1, nesting_level - 1,
                          IF nesting_level - 1 > 0
                          THEN Append(alert_lines, CleanLine(lines[i], indent))
                          ELSE alert_lines, indent)
    ELSE CaptureBody(lines, i + 1, nesting_level,
                     Append(alert_lines, CleanLine(lines[i], indent)), indent)

\* lines 683-684
RECURSIVE TrimTrailingBlank(_)
TrimTrailingBlank(lines) ==
    IF lines # <<>> /\ IsBlank(lines[Len(lines)])
    THEN TrimTrailingBlank(SubSeq(lines, 1, Len(lines) - 1))
    ELSE lines

\* f"__ALERT_BEGIN_{alert_id}_{latex_env}__", f"__ALERT_END_{alert_id}_{latex_env}__"
Marker(head, alert_id, latex_env) ==
    <<head, Digits[alert_id + 1], "_", latex_env, "__">>

RECURSIVE process_container_blocks(_)
RECURSIVE ScanLines(_, _, _, _)

\* the outer loop, lines 635-700
ScanLines(lines, i, processed_lines, alert_counter) ==
    IF i > Len(lines) THEN processed_lines
    ELSE LET m == OpenFence(lines[i]) IN
         IF m.ok
         THEN LET latex_env == container_types[m.type]
                  cap == CaptureBody(lines, i + 1, 1, <<>>, m.indent)
                  alert_content == Join(TrimTrailingBlank(cap.alert_lines))
                  processed_alert_content == process_container_blocks(alert_content)
                  processed_alert_lines ==
                      IF processed_alert_content # <<>>
                      THEN Split(processed_alert_content) ELSE <<>>
              IN ScanLines(lines, cap.next,
                     processed_lines
                       \o <<m.indent \o Marker("__ALERT_BEGIN_", alert_counter, latex_env), <<>>>>
                       \o [j \in 1..Len(processed_alert_lines) |->
                              m.indent \o processed_alert_lines[j]]
                       \o <<<<>>, m.indent \o Marker("__ALERT_END_", alert_counter, latex_env)>>,
                     alert_counter + 1)
         ELSE ScanLines(lines, i + 1, Append(processed_lines, lines[i]), alert_counter)

process_container_blocks(t) ==
    LET p == protect_code_and_math_blocks(t)
    IN restore_protected_blocks(Join(ScanLines(Split(p.content), 1, <<>>, 0)), p.blocks)

\* The lines a document is drawn from: a fence or a line of text behind an
\* indentation, or an empty line.
LineKinds ==
    [note |-> <<":::", "note">>, tip |-> <<":::", "tip">>, close |-> <<":::">>, text |-> <<"x">>,
     fence |-> <<BT, BT, BT>>, dmath |-> <<"$", "$">>]

ContainerLines == [ind : {<<>>, <<" ">>}, kind : {"note", "tip", "close", "text"}]

LineText(l) == l.ind \o LineKinds[l.kind]

InitContainers ==
    /\ pc = "start"
    /\ inp \in UNION {[1..n -> ContainerLines] : n \in 1..MaxLines}
    /\ content = Join([i \in 1..Len(inp) |-> LineText(inp[i])])
    /\ protected_blocks = <<>>
    /\ InitRunVars
    /\ InitPassVars

\* main, line 1153
ProcessContainers ==
    /\ pc = "start"
    /\ content' = process_container_blocks(content)
    /\ pc' = "parsed"
    /\ UNCHANGED <<inp, protected_blocks, runVars, passVars>>

SpecContainers == InitContainers /\ [][ProcessContainers]_vars

\* The begin and end markers of a text, in order, each with its environment.
RECURSIVE MarkerSeq(_, _)
MarkerSeq(t, i) ==
    IF i > Len(t) THEN <<>>
    ELSE IF t[i] \in {"__ALERT_BEGIN_", "__ALERT_END_"}
         THEN <<<<t[i], At(t, i + 3)>>>> \o MarkerSeq(t, i + 1)
    ELSE MarkerSeq(t, i + 1)

RECURSIVE FenceKinds(_)
FenceKinds(doc) ==
    IF doc = <<>> THEN <<>>
    ELSE (IF doc[1].kind = "text" THEN <<>> ELSE <<doc[1].kind>>) \o FenceKinds(Tail(doc))

\* a note block that holds a tip block, each closed by a bare fence
NoteHoldsTip(doc) == FenceKinds(doc) = <<"note", "tip", "close", "close">>

\* C5: a note block that contains a tip block, each closed by a bare fence,
\* comes out with exactly two marker pairs, the tip pair strictly between the
\* note begin and the note end, whatever the indentation of the four fences.
C5_NestedContainers ==
    (pc = "parsed" /\ NoteHoldsTip(inp)) =>
        MarkerSeq(content, 1) = << <<"__ALERT_BEGIN_", "mdalertnote">>, <<"__ALERT_BEGIN_", "mdalerttip">>,
                                   <<"__ALERT_END_", "mdalerttip">>, <<"__ALERT_END_", "mdalertnote">> >>

C5_Witness ==
    /\ pc = "parsed"
    /\ NoteHoldsTip(inp)
    /\ \E i, j \in 1..Len(inp) :
          /\ inp[i].kind = "note" /\ inp[j].kind = "tip"
          /\ inp[i].ind = <<" ">> /\ inp[j].ind = <<>>
    /\ Len(MarkerSeq(content, 1)) = 4

\* where the begin markers of a text stand
BeginMarkers(t) == {i \in 1..Len(t) : t[i] = "__ALERT_BEGIN_"}

\* C15: in the output no two container blocks, nested or not, have the same
\* number in their markers: the begin markers carry pairwise different numbers.
C15_UniqueMarkerNumbers ==
    pc = "parsed" =>
        \A i, j \in BeginMarkers(content) : i # j => At(content, i + 1) # At(content, j + 1)

\* an opening fence that no bare fence closes: from the line after i the
\* nesting, which starts at level, never comes back to 0
RECURSIVE NeverClosed(_, _, _)
NeverClosed(doc, i, level) ==
    IF level = 0 THEN FALSE
    ELSE IF i > Len(doc) THEN TRUE
    ELSE IF doc[i].kind \in {"note", "tip"} THEN NeverClosed(doc, i + 1, level + 1)
    ELSE IF doc[i].kind = "close" THEN NeverClosed(doc, i + 1, level - 1)
    ELSE NeverClosed(doc, i + 1, level)

\* line i is an opening fence after nothing but text, and nothing closes it
Unterminated(doc, i) ==
    /\ doc[i].kind \in {"note", "tip"}
    /\ \A j \in 1..(i - 1) : doc[j].kind = "text"
    /\ NeverClosed(doc, i + 1, 1)

\* how many lines of text a text holds
TextCount(t) == Cardinality({i \in 1..Len(t) : t[i] = "x"})

\* C18: an opening fence that no bare fence closes takes every line after it
\* as its body: the function returns, the lines before the fence are as they
\* were, the fence becomes the begin marker of block 0, the last line of the
\* output is the end marker of that block, every line from the begin marker
\* on is empty or stands behind the indentation of the fence, and no line of
\* text is lost.
C18_UnterminatedContainer ==
    pc = "parsed" =>
        \A i \in 1..Len(inp) : Unterminated(inp, i) =>
            LET out == Split(content)
                env == container_types[inp[i].kind]
            IN /\ Len(out) >= i + 1
               /\ \A j \in 1..(i - 1) : out[j] = LineText(inp[j])
               /\ out[i] = inp[i].ind \o Marker("__ALERT_BEGIN_", 0, env)
               /\ out[Len(out)] = inp[i].ind \o Marker("__ALERT_END_", 0, env)
               /\ \A j \in i..Len(out) :
                     \/ out[j] = <<>>
                     \/ /\ Len(out[j]) >= Len(inp[i].ind)
                        /\ SubSeq(out[j], 1, Len(inp[i].ind)) = inp[i].ind
               /\ TextCount(content) = TextCount(Concat([j \in 1..Len(inp) |-> LineText(inp[j])]))

\* an indented note fence after a line of text, never closed, with a closed
\* tip block and nothing else after it
C18_Witness ==
    /\ pc = "parsed"
    /\ Len(inp) = 4
    /\ inp[1].kind = "text" /\ inp[2] = [ind |-> <<" ">>, kind |-> "note"]
    /\ inp[3].kind = "tip" /\ inp[4].kind = "close"
    /\ Unterminated(inp, 2)
    /\ Len(MarkerSeq(content, 1)) = 4

(***************************************************************************)
(* Containers in documents with protected spans: the lines are fences of   *)
(* containers, lines of text, the ``` line of a fenced code block and the  *)
(* $$ line of display math, all at the left margin.                        *)
(***************************************************************************)
MaxFencedLines == 5

InitFenced ==
    /\ pc = "start"
    /\ inp \in UNION {[1..n -> [ind : {<<>>},
                                kind : {"note", "close", "text", "fence", "dmath"}]] :
                        n \in 1..MaxFencedLines}
    /\ content = Join([i \in 1..Len(inp) |-> LineText(inp[i])])
    /\ protected_blocks = <<>>
    /\ InitRunVars
    /\ InitPassVars

SpecFenced == InitFenced /\ [][ProcessContainers]_vars

\* the first line of the kind at or after line i, 0 if there is none
RECURSIVE NextOfKind(_, _, _)
NextOfKind(doc, i, kind) ==
    IF i > Len(doc) THEN 0
    ELSE IF doc[i].kind = kind THEN i
    ELSE NextOfKind(doc, i + 1, kind)

\* the fenced code blocks from line i on, as <<first line, last line>>: a ```
\* line up to the next ``` line
RECURSIVE CodeSpans(_, _)
CodeSpans(doc, i) ==
    IF i > Len(doc) THEN {}
    ELSE IF doc[i].kind = "fence" /\ NextOfKind(doc, i + 1, "fence") # 0
         THEN {<<i, NextOfKind(doc, i + 1, "fence")>>}
              \cup CodeSpans(doc, NextOfKind(doc, i + 1, "fence") + 1)
    ELSE CodeSpans(doc, i + 1)

InCode(doc, i) == \E s \in CodeSpans(doc, 1) : s[1] <= i /\ i <= s[2]

\* the first $$ line at or after line i that is not inside a code block
RECURSIVE NextMathLine(_, _)
NextMathLine(doc, i) ==
    IF i > Len(doc) THEN 0
    ELSE IF doc[i].kind = "dmath" /\ ~InCode(doc, i) THEN i
    ELSE NextMathLine(doc, i + 1)

\* the display-math spans from line i on: a $$ line outside the code blocks up
\* to the next such line
RECURSIVE MathSpans(_, _)
MathSpans(doc, i) ==
    IF i > Len(doc) THEN {}
    ELSE IF NextMathLine(doc, i) = i /\ NextMathLine(doc, i + 1) # 0
         THEN {<<i, NextMathLine(doc, i + 1)>>}
              \cup MathSpans(doc, NextMathLine(doc, i + 1) + 1)
    ELSE MathSpans(doc, i + 1)

\* the protected spans of a document that lie in no other span
ProtectedSpans(doc) ==
    MathSpans(doc, 1)
    \cup {s \in CodeSpans(doc, 1) :
            ~\E m \in MathSpans(doc, 1) : m[1] <= s[1] /\ s[2] <= m[2]}

SpanText(doc, s) == Join([j \in 1..(s[2] - s[1] + 1) |-> LineText(doc[s[1] + j - 1])])

\* a word that stands for the span that starts at a line
SpanWords == <<"S1", "S2", "S3", "S4", "S5", "S6", "S7", "S8">>

\* the lines of the document with every protected span taken as one word
RECURSIVE Opaque(_, _)
Opaque(doc, i) ==
    IF i > Len(doc) THEN <<>>
    ELSE IF \E s \in ProtectedSpans(doc) : s[1] = i
         THEN <<<<SpanWords[i]>>>>
              \o Opaque(doc, (CHOOSE s \in ProtectedSpans(doc) : s[1] = i)[2] + 1)
    ELSE <<LineText(doc[i])>> \o Opaque(doc, i + 1)

\* the text with every word that stands for a span replaced by the span
RECURSIVE Expand(_, _, _)
Expand(t, i, doc) ==
    IF i > Len(t) THEN <<>>
    ELSE IF \E s \in ProtectedSpans(doc) : SpanWords[s[1]] = t[i]
         THEN SpanText(doc, CHOOSE s \in ProtectedSpans(doc) : SpanWords[s[1]] = t[i])
              \o Expand(t, i + 1, doc)
    ELSE <<t[i]>> \o Expand(t, i + 1, doc)

\* C24: the result for a document with protected spans is the result for the
\* document in which every span is one word of text, with the text of each
\* span in the place of its word: no line inside a span opens or closes a
\* container or changes the nesting level, and the span comes back as it was.
C24_ProtectedSpansOpaque ==
    (/\ pc = "parsed"
     /\ \E s \in ProtectedSpans(inp) :
           \E j \in s[1]..s[2] : inp[j].kind \in {"note", "close"}) =>
        content = Expand(Join(ScanLines(Opaque(inp, 1), 1, <<>>, 0)), 1, inp)

(***************************************************************************)
(* Executable Block Runner.  A document is a sequence of blocks:            *)
(*   "text"    a paragraph without a python fence                           *)
(*   "python"  a match of ```python\s+\{([^}]+)\}\n(.*?)\n```, v its        *)
(*             property list and captured code                              *)
(*   "quad"    a span matched by ````+.*?````+ that holds a python fence    *)
(*   "token"   __PROTECTED_PYTHON_BLOCK_v__                                 *)
(*   "result"  what execute_python_block returned: v is the list of parts   *)
(*             that "\n\n".join puts together, empty for ""                 *)
(* A part is [t, v]: "source" ```python\n<code>\n```, "output"              *)
(* ```output\n<lines>\n```, "image" ![Python Plot](<file>).                 *)
(***************************************************************************)
MaxPyBlocks == 2

\* property lists as set(prop.strip() for prop in properties_str.split())
PropertyLists ==
    {{".show-code", ".show-output"},
     {".execute"},
     {".execute", ".show-code", ".show-output"},
     {".execute", ".show-code", ".hide-code"},
     {".execute", ".hide-output"},
     {".execute", ".show-code", ".show-output", ".no-cache"}}

\* a captured code: what its hash depends on, and whether "matplotlib" or
\* "plt." occurs in it
Codes == {[id |-> "A", plot |-> FALSE], [id |-> "P", plot |-> TRUE]}

PyBlock(props, code) == Block("python", [props |-> props, code |-> code])

PythonBlocks ==
    {Block("text", 0)}
    \cup {PyBlock(ps, c) : ps \in PropertyLists, c \in Codes}
    \cup {Block("quad", PyBlock({".execute"}, [id |-> "A", plot |-> FALSE]))}

\* line 870 as it would be with the dot of the property name left out
show_code_MissingDot(props) == "show-code" \in props /\ ".hide-code" \notin props

\* lines 868-875
show_code(props) == ".show-code" \in props /\ ".hide-code" \notin props

show_output(props) == ".hide-output" \notin props

use_cache(props) == ".no-cache" \notin props

has_matplotlib(code) == code.plot

\* f"python_plot_{code_hash}.pdf", f"python_output_{code_hash}.txt"
plot_filename(code) == <<"python_plot", Md5(code.id)>>

output_filename(code) == <<"python_output", Md5(code.id)>>

\* str.strip() of what the interpreter wrote to a stream
StripStream(s) == IF s = "2\n" THEN "2" ELSE IF s = "E\n" THEN "E" ELSE ""

\* one attempt to run a block: an exception inside the try block (the 30 s
\* timeout, or any other), the exit code, the two streams, and whether the
\* plot file is there afterwards
RunOutcomes(code) ==
    {[raised |-> "none", rc |-> 0, stdout |-> out, stderr |-> "", wrote |-> w] :
        out \in IF code.plot THEN {""} ELSE {"", "2\n"},
        w \in IF code.plot THEN BOOLEAN ELSE {FALSE}}
    \cup {[raised |-> "none", rc |-> 1, stdout |-> "", stderr |-> err, wrote |-> FALSE] :
        err \in {"", "E\n"}}
    \cup {[raised |-> r, rc |-> 0, stdout |-> "", stderr |-> "", wrote |-> FALSE] :
        r \in {"timeout", "error"}}

Part(t, v) == [t |-> t, v |-> v]

SourcePart(code) == Part("source", code)

\* lines 931-934 and 957-960 as they would be without the marker
TextOutput_EmptyRegion(output) == Part("output", <<output>>)

\* lines 931-934 and 957-960
TextOutput(output) ==
    IF output # "" THEN Part("output", <<output>>) ELSE Part("output", <<"(No output)">>)

\* parts = []; if show_code: ...; if show_output: ...
Parts(props, code, out) ==
    (IF show_code(props) THEN <<SourcePart(code)>> ELSE <<>>)
    \o (IF show_output(props) THEN <<out>> ELSE <<>>)

\* the replacements whose marker does not depend on show_output
MarkerParts(props, code, lines) ==
    (IF show_code(props) THEN <<SourcePart(code)>> ELSE <<>>) \o <<Part("output", lines)>>

\* result.stderr.strip() if result.stderr else "Unknown error"
error_msg(stderr) == IF stderr # "" THEN StripStream(stderr) ELSE "Unknown error"

\* lines 881 and 924: the artifact exists and the cache may be used
CacheHit(b, dir) ==
    /\ use_cache(b.v.props)
    /\ (IF has_matplotlib(b.v.code) THEN plot_filename(b.v.code)
        ELSE output_filename(b.v.code)) \in DOMAIN dir

\* lines 881-888 and 924-935
CachedResult(b, dir) ==
    IF has_matplotlib(b.v.code)
    THEN Block("result", Parts(b.v.props, b.v.code, Part("image", plot_filename(b.v.code))))
    ELSE Block("result", Parts(b.v.props, b.v.code, TextOutput(dir[output_filename(b.v.code)])))

\* the build directory after an attempt as it would be if line 949 came
\* before the exit-code test of line 938: the output is written whatever the
\* exit code was
DirAfter_WritesBeforeExitTest(b, o, dir) ==
    IF o.raised # "none" THEN dir
    ELSE IF has_matplotlib(b.v.code)
         THEN (IF o.wrote /\ o.rc = 0 THEN WriteFile(dir, plot_filename(b.v.code), "pdf") ELSE dir)
    ELSE IF use_cache(b.v.props)
         THEN WriteFile(dir, output_filename(b.v.code), StripStream(o.stdout))
    ELSE dir

\* the build directory after an attempt: the interpreter saves the plot, line
\* 949 writes the stripped output
DirAfter(b, o, dir) ==
    IF o.raised # "none" \/ o.rc # 0 THEN dir
    ELSE IF has_matplotlib(b.v.code)
         THEN (IF o.wrote THEN WriteFile(dir, plot_filename(b.v.code), "pdf") ELSE dir)
    ELSE IF use_cache(b.v.props)
         THEN WriteFile(dir, output_filename(b.v.code), StripStream(o.stdout))
    ELSE dir

\* the value execute_python_block returns after an attempt, lines 890-973
RunResult(b, o, dir) ==
    LET props == b.v.props
        code == b.v.code
    IN IF o.raised = "timeout" THEN Block("result", MarkerParts(props, code, <<"Execution timed out (30s limit)">>))
       ELSE IF o.raised = "error"
            THEN Block("result", MarkerParts(props, code, <<"Error: ", "e">>))
       ELSE IF o.rc # 0
            THEN Block("result", MarkerParts(props, code, <<"Error executing code:", error_msg(o.stderr)>>))
       ELSE IF has_matplotlib(code)
            THEN (IF plot_filename(code) \in DOMAIN DirAfter(b, o, dir)
                  THEN Block("result", Parts(props, code, Part("image", plot_filename(code))))
                  ELSE Block("result", Parts(props, code, Part("output", <<"No plot generated">>))))
       ELSE Block("result", Parts(props, code, TextOutput(StripStream(o.stdout))))

\* the substitution of line 975 as it would go on if the exception handlers
\* of lines 962-973 and the exit-code tests let a failure end it: no match is
\* taken up after a block whose replacement is an error marker
NextPython_StopsAfterFailure(doc, p) ==
    IF /\ p >= 1 /\ p <= Len(doc) /\ doc[p].k = "result"
       /\ \E n \in 1..Len(doc[p].v) :
            /\ doc[p].v[n].t = "output"
            /\ doc[p].v[n].v[1] \in {"Error executing code:", "Execution timed out (30s limit)", "Error: "}
    THEN 0
    ELSE IF \E i \in (p + 1)..Len(doc) : doc[i].k = "python"
    THEN CHOOSE i \in (p + 1)..Len(doc) :
            /\ doc[i].k = "python"
            /\ \A j \in (p + 1)..(i - 1) : doc[j].k # "python"
    ELSE 0

\* the next match of the python pattern after position p; 0 if none
NextPython(doc, p) ==
    IF \E i \in (p + 1)..Len(doc) : doc[i].k = "python"
    THEN CHOOSE i \in (p + 1)..Len(doc) :
            /\ doc[i].k = "python"
            /\ \A j \in (p + 1)..(i - 1) : doc[j].k # "python"
    ELSE 0

InitPython ==
    /\ pc = "idle"
    /\ inp \in UNION {[1..n -> PythonBlocks] : n \in 0..MaxPyBlocks}
    /\ content = inp
    /\ protected_blocks = <<>>
    /\ InitRunVars
    /\ InitPassVars

\* lines 837-851: no block matches the pattern
PythonNoBlocks ==
    /\ pc \in {"idle", "done"}
    /\ LET st == store_non_mermaid_block(inp)
       IN /\ NextPython(st.content, 0) = 0
          /\ content' = RestoreQuads(st.content, st.blocks)
          /\ protected_blocks' = st.blocks
    /\ calls' = {}
    /\ pc' = "done"
    /\ UNCHANGED <<inp, build_dir, mmdc_cmd, pos, outputs, passVars>>

\* lines 837-854: some block matches; the substitution of line 975 starts
PythonBegin ==
    /\ pc \in {"idle", "done"}
    /\ LET st == store_non_mermaid_block(inp)
       IN /\ NextPython(st.content, 0) # 0
          /\ content' = st.content
          /\ protected_blocks' = st.blocks
    /\ pos' = 0
    /\ calls' = {}
    /\ pc' = "executing"
    /\ UNCHANGED <<inp, build_dir, mmdc_cmd, outputs, passVars>>

\* execute_python_block, lines 860-864: the block is not to be executed
PassThrough ==
    /\ pc = "executing"
    /\ LET i == NextPython(content, pos) IN
        /\ i # 0
        /\ ".execute" \notin content[i].v.props
        /\ pos' = i
    /\ UNCHANGED <<pc, inp, content, protected_blocks, build_dir, mmdc_cmd, calls, outputs,
                   passVars>>

\* execute_python_block, lines 881-888 and 924-935: the cached artifact is used
UseCached ==
    /\ pc = "executing"
    /\ LET i == NextPython(content, pos) IN
        /\ i # 0
        /\ ".execute" \in content[i].v.props
        /\ CacheHit(content[i], build_dir)
        /\ content' = [content EXCEPT ![i] = CachedResult(content[i], build_dir)]
        /\ pos' = i
    /\ UNCHANGED <<pc, inp, protected_blocks, build_dir, mmdc_cmd, calls, outputs, passVars>>

\* execute_python_block, lines 890-973: the interpreter is started
RunBlock ==
    /\ pc = "executing"
    /\ LET i == NextPython(content, pos) IN
        /\ i # 0
        /\ ".execute" \in content[i].v.props
        /\ ~CacheHit(content[i], build_dir)
        /\ \E o \in RunOutcomes(content[i].v.code) :
            /\ build_dir' = DirAfter(content[i], o, build_dir)
            /\ calls' = calls \cup
                 {[prog |-> "python", pos |-> i, hash |-> Md5(content[i].v.code.id),
                   outcome |-> o]}
            /\ content' = [content EXCEPT ![i] = RunResult(content[i], o, build_dir)]
        /\ pos' = i
    /\ UNCHANGED <<pc, inp, protected_blocks, mmdc_cmd, outputs, passVars>>

\* lines 975-982: no match is left; the protected blocks are put back
PythonReturn ==
    /\ pc = "executing"
    /\ NextPython(content, pos) = 0
    /\ content' = RestoreQuads(content, protected_blocks)
    /\ pc' = "done"
    /\ UNCHANGED <<inp, protected_blocks, build_dir, mmdc_cmd, pos, calls, outputs, passVars>>

NextPythonSpec ==
    \/ PythonNoBlocks
    \/ PythonBegin
    \/ PassThrough
    \/ UseCached
    \/ RunBlock
    \/ PythonReturn

SpecPython == InitPython /\ [][NextPythonSpec]_vars

\* the python blocks of the input that the substitution of line 975 visits
PythonPositions == {i \in 1..Len(inp) : inp[i].k = "python"}

\* the interpreter runs started for the block at position i in this run
RunsAt(i) == {c \in calls : c.pos = i}

Succeeded(o) == o.raised = "none" /\ o.rc = 0

Asks(i, names) == names \subseteq inp[i].v.props

Fences(i) ==
    IF content[i].k = "result"
    THEN {content[i].v[n].v : n \in {m \in 1..Len(content[i].v) : content[i].v[m].t = "output"}}
    ELSE {}

HasSource(i) ==
    /\ content[i].k = "result"
    /\ \E n \in 1..Len(content[i].v) : content[i].v[n] = SourcePart(inp[i].v.code)

SourceFirst(i) == HasSource(i) => content[i].v[1] = SourcePart(inp[i].v.code)

\* C10 as stated: for a block that was run, a non-zero exit gives the error
\* marker block and nothing else but the source block, which comes first and
\* is there exactly when show-code is set; a timeout gives the timeout marker
\* block; a successful run with empty output gives the no-output marker block.
C10_RunOutcomes ==
    pc = "done" =>
      \A i \in PythonPositions : \A c \in RunsAt(i) :
        /\ (c.outcome.raised = "none" /\ c.outcome.rc # 0) =>
              /\ Fences(i) = {<<"Error executing code:", error_msg(c.outcome.stderr)>>}
              /\ HasSource(i) <=> Asks(i, {".show-code"})
              /\ SourceFirst(i)
        /\ c.outcome.raised = "timeout" => <<"Execution timed out (30s limit)">> \in Fences(i)
        /\ (Succeeded(c.outcome) /\ StripStream(c.outcome.stdout) = "") =>
              <<"(No output)">> \in Fences(i)

\* C10 as amended: the source block is there exactly when show-code is set
\* and hide-code is not; the no-output marker block is given for a block that
\* does not plot and does not hide its output.
C10_RunOutcomesAmended ==
    pc = "done" =>
      \A i \in PythonPositions : \A c \in RunsAt(i) :
        /\ (c.outcome.raised = "none" /\ c.outcome.rc # 0) =>
              /\ Fences(i) = {<<"Error executing code:", error_msg(c.outcome.stderr)>>}
              /\ HasSource(i) <=> (Asks(i, {".show-code"}) /\ ~Asks(i, {".hide-code"}))
              /\ SourceFirst(i)
        /\ c.outcome.raised = "timeout" => <<"Execution timed out (30s limit)">> \in Fences(i)
        /\ (/\ Succeeded(c.outcome) /\ StripStream(c.outcome.stdout) = ""
            /\ ~inp[i].v.code.plot /\ ~Asks(i, {".hide-output"})) =>
              <<"(No output)">> \in Fences(i)

\* a run in which one block exited non-zero, one timed out and one succeeded
\* with nothing on its output, each replaced by its marker
C10_Witness ==
    /\ pc = "done"
    /\ \E c \in calls :
        /\ c.outcome.raised = "none" /\ c.outcome.rc # 0
        /\ HasSource(c.pos)
        /\ Fences(c.pos) = {<<"Error executing code:", "E">>}
    /\ \E c \in calls :
        \/ c.outcome.raised = "timeout" /\ <<"Execution timed out (30s limit)">> \in Fences(c.pos)
        \/ /\ Succeeded(c.outcome) /\ c.outcome.stdout = ""
           /\ <<"(No output)">> \in Fences(c.pos)

\* the blocks of the input that carry the execute property
Executable == {i \in PythonPositions : Asks(i, {".execute"})}

\* the interpreter runs of this run that failed: non-zero exit, timeout, or
\* another exception
FailedRuns == {c \in calls : ~Succeeded(c.outcome)}

\* C11: once the run of one block has failed, the executable blocks after it
\* are still taken up one by one in document order (those up to the position
\* of the substitution are replaced, those after it still wait), all of them
\* are replaced when the function returns, and everything that is not an
\* executable block comes back as it was.
C11_FailureIsolated ==
    \A c \in FailedRuns :
        /\ pc = "executing" =>
              \A j \in Executable :
                 /\ (j > c.pos /\ j <= pos) => content[j].k = "result"
                 /\ j > pos => content[j] = inp[j]
        /\ pc = "done" =>
              /\ Len(content) = Len(inp)
              /\ \A j \in Executable : j > c.pos =>
                    /\ content[j].k = "result"
                    /\ RunsAt(j) # {} \/ content[j] = CachedResult(inp[j], build_dir)
              /\ \A j \in (1..Len(inp)) \ Executable : content[j] = inp[j]

\* a run that has returned in which the first block timed out and the second
\* block was run after it and replaced by its output
C11_Witness ==
    /\ pc = "done"
    /\ \E c \in FailedRuns : \E d \in calls :
        /\ c.pos = 1 /\ c.outcome.raised = "timeout"
        /\ d.pos = 2 /\ Succeeded(d.outcome)
        /\ content[2].k = "result"

\* C12: when the substitution takes up an executable block that carries the
\* no-cache property, the interpreter is started for it whether or not an
\* artifact for its hash is in the build directory, and when that run
\* succeeds the artifact for the hash holds the result of this run afterwards:
\* the stripped output for a block that does not plot, the saved figure for
\* one that does.
C12_NoCacheOverwrites ==
    [][\A i \in Executable :
          (pc = "executing" /\ pos' = i /\ pos # i /\ Asks(i, {".no-cache"})) =>
             /\ \E c \in calls' \ calls : c.pos = i
             /\ \A c \in calls' \ calls : Succeeded(c.outcome) =>
                   IF has_matplotlib(inp[i].v.code)
                   THEN c.outcome.wrote =>
                          /\ plot_filename(inp[i].v.code) \in DOMAIN build_dir'
                          /\ build_dir'[plot_filename(inp[i].v.code)] = "pdf"
                   ELSE /\ output_filename(inp[i].v.code) \in DOMAIN build_dir'
                        /\ build_dir'[output_filename(inp[i].v.code)]
                             = StripStream(c.outcome.stdout)]_vars

\* C22: when the substitution takes up an executable block that does not
\* plot, the build directory changes in that step only if the interpreter was
\* started for the block and exited with code 0; a run that exits non-zero,
\* times out or raises leaves the build directory as it was; and whenever the
\* output artifact for the block's hash is not there, the interpreter is
\* started for the block (so a block whose run failed is run again).
C22_CacheWrittenOnSuccessOnly ==
    [][\A i \in Executable :
          (pc = "executing" /\ pos' = i /\ pos # i /\ ~has_matplotlib(inp[i].v.code)) =>
             /\ build_dir' # build_dir =>
                   \E c \in calls' \ calls : c.pos = i /\ Succeeded(c.outcome)
             /\ \A c \in calls' \ calls : ~Succeeded(c.outcome) => build_dir' = build_dir
             /\ output_filename(inp[i].v.code) \notin DOMAIN build_dir =>
                   \E c \in calls' \ calls : c.pos = i]_vars

\* two blocks with the same code and the cache in use: the run of the first
\* exited non-zero, so the interpreter was started again for the second, whose
\* run succeeded and wrote the artifact
C22_Witness ==
    /\ pc = "done"
    /\ \E c \in FailedRuns : \E d \in calls :
        /\ c.pos = 1 /\ c.outcome.raised = "none" /\ c.outcome.rc # 0
        /\ d.pos = 2 /\ d.hash = c.hash /\ Succeeded(d.outcome)
        /\ ~has_matplotlib(inp[1].v.code)
        /\ use_cache(inp[1].v.props) /\ use_cache(inp[2].v.props)
        /\ output_filename(inp[2].v.code) \in DOMAIN build_dir
        /\ build_dir[output_filename(inp[2].v.code)] = StripStream(d.outcome.stdout)

(***************************************************************************)
(* Variable Substitutor.  The variable map is the sequence of its          *)
(* [name, value] items in the order variables.items() yields them.         *)
(***************************************************************************)
MaxVarPieces == 3

\* length of the run of characters other than } that starts at i
RECURSIVE NotRbrRun(_, _)
NotRbrRun(t, i) ==
    IF i >= 1 /\ i <= Len(t) /\ t[i] # "}" THEN 1 + NotRbrRun(t, i + 1) ELSE 0

\* \{\{([^}]+)\}\}: the last position of the match that starts at i, 0 if none
TokenEnd(t, i) ==
    LET r == NotRbrRun(t, i + 2) IN
    IF /\ At(t, i) = "{" /\ At(t, i + 1) = "{"
       /\ r >= 1
       /\ At(t, i + 2 + r) = "}" /\ At(t, i + 3 + r) = "}"
    THEN i + 3 + r ELSE 0

\* r"\{\{\s*" + re.escape(var_name) + r"\s*\}\}"
VarEnd(t, i, var_name) ==
    LET a == i + 2 + WsRun(t, i + 2)
        b == a + Len(var_name)
        e == b + WsRun(t, b)
    IN IF /\ At(t, i) = "{" /\ At(t, i + 1) = "{"
          /\ b - 1 <= Len(t)
          /\ SubSeq(t, a, b - 1) = var_name
          /\ At(t, e) = "}" /\ At(t, e + 1) = "}"
       THEN e + 1 ELSE 0

\* re.findall(r"\{\{([^}]+)\}\}", content): the captured groups
RECURSIVE FindTokens(_, _)
FindTokens(t, i) ==
    IF i > Len(t) THEN <<>>
    ELSE LET e == TokenEnd(t, i) IN
         IF e # 0 THEN <<SubSeq(t, i + 2, e - 2)>> \o FindTokens(t, e + 1)
         ELSE FindTokens(t, i + 1)

\* re.search(pattern, content)
SearchVar(t, var_name) == \E i \in 1..Len(t) : VarEnd(t, i, var_name) # 0

\* the chain of str.replace calls of line 1010
escaped_value(var_value) ==
    EscapeAll(var_value, <<"\\", "%", "&", "$", "#", "^", "_", "{", "}">>)

\* what re.sub makes of a replacement string: \\ stands for one backslash,
\* a backslash before a character that is neither a letter nor a digit stays
RECURSIVE ExpandTemplate(_)
ExpandTemplate(repl) ==
    IF repl = <<>> THEN <<>>
    ELSE IF Head(repl) = "\\" /\ Len(repl) >= 2
         THEN (IF repl[2] = "\\" THEN <<"\\">> ELSE <<"\\", repl[2]>>)
              \o ExpandTemplate(SubSeq(repl, 3, Len(repl)))
    ELSE <<Head(repl)>> \o ExpandTemplate(Tail(repl))

\* re.sub(pattern, escaped_value, content)
RECURSIVE SubVar(_, _, _, _)
SubVar(t, i, var_name, repl) ==
    IF i > Len(t) THEN <<>>
    ELSE LET e == VarEnd(t, i, var_name) IN
         IF e # 0 THEN ExpandTemplate(repl) \o SubVar(t, e + 1, var_name, repl)
         ELSE <<t[i]>> \o SubVar(t, i + 1, var_name, repl)

\* the loop of lines 1007-1012
RECURSIVE SubstituteAll(_, _)
SubstituteAll(t, variables) ==
    IF variables = <<>> THEN t
    ELSE LET v == Head(variables) IN
         SubstituteAll(IF SearchVar(t, v.name)
                       THEN SubVar(t, 1, v.name, escaped_value(v.value)) ELSE t,
                       Tail(variables))

\* f"[UNDEFINED: {var_name}]"
replace_unresolved_variable(group) == <<"[UNDEFINED: ">> \o StripText(group) \o <<"]">>

\* re.sub(unresolved_pattern, replace_unresolved_variable, content)
RECURSIVE SubUnresolved(_, _)
SubUnresolved(t, i) ==
    IF i > Len(t) THEN <<>>
    ELSE LET e == TokenEnd(t, i) IN
         IF e # 0
         THEN replace_unresolved_variable(SubSeq(t, i + 2, e - 2)) \o SubUnresolved(t, e + 1)
         ELSE <<t[i]>> \o SubUnresolved(t, i + 1)

\* the names the warning of line 1017 would list without set()
unique_unresolved_Repeated(unresolved_matches) ==
    LET names == {StripText(unresolved_matches[i]) : i \in 1..Len(unresolved_matches)}
    IN [n \in names |->
           Cardinality({i \in 1..Len(unresolved_matches) :
                           StripText(unresolved_matches[i]) = n})]

\* list(set(match.strip() for match in unresolved_matches)), as the bag of
\* the names the warning of line 1017 lists
unique_unresolved(unresolved_matches) ==
    SetToBag({StripText(unresolved_matches[i]) : i \in 1..Len(unresolved_matches)})

\* [content, report]: the returned text and the names that were logged
substitute_variables(t, variables) ==
    IF FindTokens(t, 1) = <<>> THEN [content |-> t, report |-> EmptyBag]
    ELSE LET p == protect_code_and_math_blocks(t)
             c == SubstituteAll(p.content, variables)
             unresolved_matches == FindTokens(c, 1)
         IN [content |-> restore_protected_blocks(
                            IF unresolved_matches # <<>> THEN SubUnresolved(c, 1) ELSE c,
                            p.blocks),
             report |-> unique_unresolved(unresolved_matches)]

VarRef(name) == <<"{", "{">> \o name \o <<"}", "}">>

VariablePieces ==
    {VarRef(<<"a">>), VarRef(<<"b">>), VarRef(<<"m">>), VarRef(<<" ", "m", " ">>),
     <<BT>> \o VarRef(<<"m">>) \o <<BT>>, <<"x">>}

VariableItems == [name : {<<"a">>, <<"b">>}, value : {<<"v">>, <<"%">>, VarRef(<<"b">>)}]

\* the maps over the names a and b, in either order of their items
VariableMaps ==
    {<<>>} \cup {<<i>> : i \in VariableItems}
    \cup {m \in VariableItems \X VariableItems : m[1].name # m[2].name}

InitVariables ==
    /\ pc = "start"
    /\ inp \in UNION {[1..n -> VariablePieces] : n \in 0..MaxVarPieces}
    /\ content = Concat(inp)
    /\ protected_blocks = <<>>
    /\ InitRunVars
    /\ footnote_defs = <<>>
    /\ mid = <<>>
    /\ meta \in [variables : VariableMaps]
    /\ unresolved = EmptyBag
    /\ history = <<>>

\* main, line 1141
SubstituteVariables ==
    /\ pc = "start"
    /\ \E r \in {substitute_variables(content, meta.variables)} :
        /\ content' = r.content
        /\ unresolved' = r.report
    /\ pc' = "substituted"
    /\ UNCHANGED <<inp, protected_blocks, runVars, footnote_defs, mid, meta, history>>

SpecVariables == InitVariables /\ [][SubstituteVariables]_vars

\* a piece of the document that is a variable token, and the name it asks for
IsRef(piece) == Len(piece) >= 5 /\ piece[1] = "{" /\ piece[2] = "{"

RefName(piece) == StripText(SubSeq(piece, 3, Len(piece) - 2))

Defined(name) == \E i \in 1..Len(meta.variables) : meta.variables[i].name = name

ValueOf(name) ==
    meta.variables[CHOOSE i \in 1..Len(meta.variables) : meta.variables[i].name = name].value

\* a value with each of its markup characters behind a backslash
Inserted(value) ==
    Concat([i \in 1..Len(value) |->
               IF value[i] \in {"%", "{", "}"} THEN <<"\\", value[i]>> ELSE <<value[i]>>])

UndefinedRefs == {i \in 1..Len(inp) : IsRef(inp[i]) /\ ~Defined(RefName(inp[i]))}

\* what a piece of the document is to become
Substituted(piece) ==
    IF ~IsRef(piece) THEN piece
    ELSE IF Defined(RefName(piece)) THEN Inserted(ValueOf(RefName(piece)))
    ELSE <<"[UNDEFINED: ">> \o RefName(piece) \o <<"]">>

\* C7: every token outside a code span whose name has no item in the variable
\* map becomes [UNDEFINED: name] (the tokens of defined names become their
\* escaped values, everything else stays), and the report of unresolved names
\* lists each such name exactly once however often its token occurs.
C7_UndefinedVariables ==
    pc = "substituted" =>
        /\ content = Concat([i \in 1..Len(inp) |-> Substituted(inp[i])])
        /\ unresolved = SetToBag({RefName(inp[i]) : i \in UndefinedRefs})

\* a document in which the token of an undefined name occurs twice, once
\* with blanks inside the braces, and once more inside a code span
C7_Witness ==
    /\ pc = "substituted"
    /\ \E i, j, k \in 1..Len(inp) :
        /\ i # j
        /\ inp[i] = VarRef(<<"m">>) /\ inp[j] = VarRef(<<" ", "m", " ">>)
        /\ inp[k] = <<BT>> \o VarRef(<<"m">>) \o <<BT>>
    /\ CopiesIn(<<"m">>, unresolved) = 1

(***************************************************************************)
(* Specification of the substitutor on documents in which braces also       *)
(* stand around a token.                                                    *)
(***************************************************************************)
MaxBracePieces == 3

InitBraces ==
    /\ pc = "start"
    /\ inp \in UNION {[1..n -> {VarRef(<<"a">>), <<"{", "{">>, <<"}", "}">>, <<"x">>}] :
                         n \in 0..MaxBracePieces}
    /\ content = Concat(inp)
    /\ protected_blocks = <<>>
    /\ InitRunVars
    /\ footnote_defs = <<>>
    /\ mid = <<>>
    /\ meta \in [variables : VariableMaps]
    /\ unresolved = EmptyBag
    /\ history = <<>>

SpecBraces == InitBraces /\ [][SubstituteVariables]_vars

\* the names of the tokens of the document as it was read
TokenNamesRead ==
    LET found == FindTokens(protect_code_and_math_blocks(Concat(inp)).content, 1)
    IN {StripText(found[i]) : i \in 1..Len(found)}

\* C19: inserted text is never substituted itself: every name reported as
\* unresolved is the name of a token of the document as it was read, and a
\* value that holds the token of b stands in the output as escaped literal
\* text wherever the token of its variable stood.
C19_NonRecursive ==
    pc = "substituted" =>
        /\ BagToSet(unresolved) \subseteq TokenNamesRead
        /\ \A i \in 1..Len(inp) :
              (/\ IsRef(inp[i]) /\ Defined(RefName(inp[i]))
               /\ ValueOf(RefName(inp[i])) = VarRef(<<"b">>))
              => Occurrences(content, <<"\\", "{", "\\", "{", "b", "\\", "}", "\\", "}">>) # {}

(***************************************************************************)
(* The pipeline of main, lines 1140-1160.  The documents of this            *)
(* specification hold variable tokens, percent signs, code spans and        *)
(* container blocks, and none of the constructs the other passes rewrite    *)
(* (fenced blocks, [[keys]], ==marks==, emoji, footnotes): on them a pass   *)
(* that protects, substitutes and restores comes down to protecting and     *)
(* restoring, and a pass that only substitutes returns its input.           *)
(***************************************************************************)
MaxMainPieces == 2

\* the statements of lines 1141-1160, in program order
MainLines ==
    <<"substitute_variables", "process_code_highlights",
      "convert_markdown_footnotes_to_latex", "process_mermaid_diagrams",
      "normalize_language_identifiers", "process_keyboard_shortcuts",
      "process_container_blocks", "apply_markdown_formatting_math_safe",
      "process_emojis", "escape_signs", "post_process_alerts",
      "process_executable_python_blocks", "write_text">>

\* the statement main executes after the named one
After(line) ==
    LET k == CHOOSE k \in 1..Len(MainLines) : MainLines[k] = line
    IN IF k < Len(MainLines) THEN MainLines[k + 1] ELSE "written"

\* protect_code_and_math_blocks followed by restore_protected_blocks
ProtectAndRestore(t) ==
    LET p == protect_code_and_math_blocks(t) IN restore_protected_blocks(p.content, p.blocks)

\* re.sub(r"__ALERT_BEGIN_\d+_([a-z]+)__", replace_begin, content), and the
\* same for the end markers
RECURSIVE SubAlerts(_, _, _)
SubAlerts(t, head, word) ==
    IF t = <<>> THEN <<>>
    ELSE IF /\ Len(t) >= 5
            /\ t[1] = head
            /\ \E d \in 1..Len(Digits) : t[2] = Digits[d]
            /\ t[3] = "_"
            /\ \E ty \in DOMAIN container_types : t[4] = container_types[ty]
            /\ t[5] = "__"
         THEN <<"\\", word, "{", t[4], "}">> \o SubAlerts(SubSeq(t, 6, Len(t)), head, word)
    ELSE <<Head(t)>> \o SubAlerts(Tail(t), head, word)

post_process_alerts(t) ==
    LET p == protect_code_and_math_blocks(t)
    IN restore_protected_blocks(
           SubAlerts(SubAlerts(p.content, "__ALERT_BEGIN_", "begin"), "__ALERT_END_", "end"), p.blocks)

\* what the lookup of the emoji table can do, lines 757-758: the tool is not
\* found, it exits non-zero, it names no table that exists, it names a table
EmojiLookups == {"missing", "failed", "none", "table"}

MainPieces ==
    {VarRef(<<"a">>), <<"%">>, <<BT, "%", BT>>, <<"$", BT, "x", BT, "$">>,
     <<":::", "note", "\n", "x", "\n", ":::", "\n">>, <<"x">>}

MainMaps ==
    {<<>>, <<[name |-> <<"a">>, value |-> <<"v">>]>>, <<[name |-> <<"a">>, value |-> <<"%">>]>>}

MainDocument == <<"document">>

InitMain ==
    /\ pc = MainLines[1]
    /\ inp \in Texts(MainPieces, MaxMainPieces)
    /\ content = inp
    /\ protected_blocks = <<>>
    /\ InitRunVars
    /\ footnote_defs = <<>>
    /\ mid = <<>>
    /\ meta \in [variables : MainMaps, footnotesAsComments : BOOLEAN]
    /\ unresolved = EmptyBag
    /\ history = <<>>

\* md_content = f(md_content): one statement of lines 1141-1158
Assign(line, out) ==
    /\ pc = line
    /\ history' = Append(history, [pass |-> line, input |-> content, output |-> out])
    /\ content' = out
    /\ pc' = After(line)
    /\ UNCHANGED <<inp, protected_blocks, runVars, footnote_defs, mid, meta>>

\* line 1141
MainSubstituteVariables ==
    \E r \in {substitute_variables(content, meta.variables)} :
        /\ Assign("substitute_variables", r.content)
        /\ unresolved' = r.report

\* line 1142
MainCodeHighlights ==
    Assign("process_code_highlights", content) /\ UNCHANGED unresolved

\* lines 1144-1148
MainFootnotes ==
    /\ Assign("convert_markdown_footnotes_to_latex",
              convert_markdown_footnotes_to_latex(content, meta.footnotesAsComments).content)
    /\ UNCHANGED unresolved

\* line 1150
MainMermaid ==
    Assign("process_mermaid_diagrams", content) /\ UNCHANGED unresolved

\* line 1151
MainLanguageIdentifiers ==
    Assign("normalize_language_identifiers", content) /\ UNCHANGED unresolved

\* line 1152
MainKeyboardShortcuts ==
    Assign("process_keyboard_shortcuts", ProtectAndRestore(content)) /\ UNCHANGED unresolved

\* line 1153
MainContainerBlocks ==
    Assign("process_container_blocks", process_container_blocks(content))
    /\ UNCHANGED unresolved

\* line 1154
MainFormatting ==
    Assign("apply_markdown_formatting_math_safe", ProtectAndRestore(content))
    /\ UNCHANGED unresolved

\* line 1155: the lookup of line 757 is outside any try block
MainEmojis ==
    /\ pc = "process_emojis"
    /\ \E lookup \in EmojiLookups :
        /\ calls' = calls \cup {[prog |-> "kpsewhich", outcome |-> lookup]}
        /\ IF lookup \in {"missing", "failed"}
           THEN /\ pc' = "aborted"
                /\ UNCHANGED <<content, history>>
           ELSE \E out \in {ProtectAndRestore(content)} :
                /\ history' = Append(history, [pass |-> "process_emojis", input |-> content,
                                                output |-> out])
                /\ content' = out
                /\ pc' = After("process_emojis")
    /\ UNCHANGED <<inp, protected_blocks, build_dir, mmdc_cmd, pos, outputs, footnote_defs, mid,
                   meta, unresolved>>

\* line 1156
MainEscapeSigns ==
    Assign("escape_signs", escape_signs(content, <<"%">>)) /\ UNCHANGED unresolved

\* line 1157
MainPostProcessAlerts ==
    Assign("post_process_alerts", post_process_alerts(content)) /\ UNCHANGED unresolved

\* line 1158
MainPythonBlocks ==
    Assign("process_executable_python_blocks", content) /\ UNCHANGED unresolved

\* line 1160
MainWrite ==
    /\ pc = "write_text"
    /\ build_dir' = WriteFile(build_dir, MainDocument, content)
    /\ pc' = After("write_text")
    /\ UNCHANGED <<textVars, mmdc_cmd, pos, calls, outputs, passVars>>

NextMain ==
    \/ MainSubstituteVariables
    \/ MainCodeHighlights
    \/ MainFootnotes
    \/ MainMermaid
    \/ MainLanguageIdentifiers
    \/ MainKeyboardShortcuts
    \/ MainContainerBlocks
    \/ MainFormatting
    \/ MainEmojis
    \/ MainEscapeSigns
    \/ MainPostProcessAlerts
    \/ MainPythonBlocks
    \/ MainWrite

SpecMain == InitMain /\ [][NextMain]_vars

\* the twelve passes in the order of the claim: variable substitution,
\* code-highlight extraction, footnote conversion, diagram externalization,
\* language-tag normalization, keyboard-shortcut parsing, container parsing,
\* inline formatting, emoji mapping, escaping, container-marker resolution,
\* executable block running
PassOrder ==
    <<"substitute_variables", "process_code_highlights",
      "convert_markdown_footnotes_to_latex", "process_mermaid_diagrams",
      "normalize_language_identifiers", "process_keyboard_shortcuts",
      "process_container_blocks", "apply_markdown_formatting_math_safe",
      "process_emojis", "escape_signs", "post_process_alerts",
      "process_executable_python_blocks">>

\* C8: in every run of main the passes applied so far are the first passes
\* of the fixed order, each once, the first on the document read and each
\* later one on the output of the one before it; a run that has ended has
\* applied all twelve, and the document written is the output of the twelfth.
C8_TwelvePassesInOrder ==
    /\ Len(history) <= Len(PassOrder)
    /\ \A k \in 1..Len(history) :
        /\ history[k].pass = PassOrder[k]
        /\ history[k].input = IF k = 1 THEN inp ELSE history[k - 1].output
    /\ pc \in {"written", "aborted"} => Len(history) = Len(PassOrder)
    /\ pc = "written" => build_dir[MainDocument] = history[Len(PassOrder)].output

\* the strings the passes put into the document for their own use: the
\* protection placeholders and the heads of the container markers
Sentinels ==
    {TokenNames[kind][n] : kind \in DOMAIN TokenNames, n \in 1..10}
    \cup {"__ALERT_BEGIN_", "__ALERT_END_"}

\* C13: the document written at the end of the pipeline holds no protection
\* placeholder and no container marker (the documents read hold none).
C13_NoSentinelsWritten ==
    pc = "written" =>
        \A i \in 1..Len(build_dir[MainDocument]) : build_dir[MainDocument][i] \notin Sentinels

\* C14: when the lookup of the emoji table finds no tool, fails or names no
\* table, process_emojis raises nothing, so the run is not ended, and it
\* returns the document it was given.
C14_EmojiSoftFailure ==
    \A c \in calls :
        (c.prog = "kpsewhich" /\ c.outcome # "table") =>
            /\ pc # "aborted"
            /\ \E k \in 1..Len(history) :
                  /\ history[k].pass = "process_emojis"
                  /\ history[k].output = history[k].input


\* the variables of the front matter whose value holds a percent sign
PercentValued ==
    {n \in 1..Len(meta.variables) : Occurrences(meta.variables[n].value, <<"%">>) # {}}

\* C23: in a written document whose source holds no percent sign of its own,
\* so that every percent sign of the result came in through the value of a
\* substituted variable, each percent sign is preceded by exactly one
\* backslash.
C23_PercentEscapedOnce ==
    (pc = "written" /\ PercentValued # {} /\ Occurrences(inp, <<"%">>) = {}) =>
        \A i \in Occurrences(build_dir[MainDocument], <<"%">>) :
            /\ At(build_dir[MainDocument], i - 1) = "\\"
            /\ At(build_dir[MainDocument], i - 2) # "\\"

=============================================================================
